---------------------------- MODULE Spec2Model ----------------------------
(***************************************************************************)
(* Model of app.py, the Streamlit finance tracker: the three worksheets of *)
(* each spreadsheet (the store), the st.cache_data cache of                *)
(* load_sheet_dataframe, one script run per user interaction, the three    *)
(* form handlers and the dashboard aggregation.                            *)
(*                                                                         *)
(* Strings are sequences of character codes (32 = space, 45 = '-',         *)
(* 48..57 = digits), so that strip(), str(date), pd.to_datetime and the    *)
(* ordering of the month keys are computed and not assumed.                *)
(***************************************************************************)
EXTENDS Integers, Sequences, FiniteSets, TLC

VARIABLES
    store,              \* spreadsheet -> worksheet -> rows below the header
    cache,              \* st.cache_data of load_sheet_dataframe
    spreadsheet_name,   \* the sidebar selectbox
    start_date,         \* the sidebar date inputs
    end_date,
    transactions_df,    \* the normalized dataframes of the last script run
    budgets_df,
    goals_df,
    last                \* history: the last interaction, its inputs, and what
                        \* its writer did

vars == <<store, cache, spreadsheet_name, start_date, end_date,
          transactions_df, budgets_df, goals_df, last>>

-----------------------------------------------------------------------------
(* Bounds *)

\* Rows the Transactions worksheet of SHEET_NAME may grow to.
MaxTx == 2

-----------------------------------------------------------------------------
(* Names *)

SHEET_NAME == "Richman Finance Tracker"
ANOTHER_SPREADSHEET == "Another Spreadsheet"
TRANSACTIONS_SHEET == "Transactions"
BUDGETS_SHEET == "Budgets"
GOALS_SHEET == "Goals"

SpreadsheetOptions == {SHEET_NAME, ANOTHER_SPREADSHEET}
SheetNames == {TRANSACTIONS_SHEET, BUDGETS_SHEET, GOALS_SHEET}

\* "Food", "Snacks", "Trip", and inputs with surrounding blanks
Food == <<70, 111, 111, 100>>
Snacks == <<83, 110, 97, 99, 107, 115>>
Trip == <<84, 114, 105, 112>>
Visa == <<86, 105, 115, 97>>
You == <<89, 111, 117>>
Lunch == <<76, 117, 110, 99, 104>>
EmptyStr == << >>
Blank == <<32>>
PaddedSnacks == <<32>> \o Snacks \o <<32>>

-----------------------------------------------------------------------------
(* Strings *)

\* str.strip(): leading and trailing whitespace removed
RECURSIVE lstrip(_)
lstrip(s) == IF s # << >> /\ Head(s) = 32 THEN lstrip(Tail(s)) ELSE s

RECURSIVE rstrip(_)
rstrip(s) ==
    IF s # << >> /\ s[Len(s)] = 32 THEN rstrip(SubSeq(s, 1, Len(s) - 1)) ELSE s

strip(s) == rstrip(lstrip(s))

\* Python's < on str: lexicographic on the code points
RECURSIVE StrLess(_, _)
StrLess(a, b) ==
    IF b = << >> THEN FALSE
    ELSE IF a = << >> THEN TRUE
    ELSE IF Head(a) # Head(b) THEN Head(a) < Head(b)
    ELSE StrLess(Tail(a), Tail(b))

\* n written in decimal on at least `width` digits (zero padded)
RECURSIVE Digits(_, _)
Digits(n, width) ==
    IF n < 10 /\ width <= 1 THEN <<48 + n>>
    ELSE Digits(n \div 10, width - 1) \o <<48 + (n % 10)>>

RECURSIVE ParseInt(_)
ParseInt(s) ==
    IF s = << >> THEN 0 ELSE 10 * ParseInt(SubSeq(s, 1, Len(s) - 1)) + (s[Len(s)] - 48)

-----------------------------------------------------------------------------
(* Dates *)

Date(y, m, d) == [year |-> y, month |-> m, day |-> d]

\* str(date_in): ISO format YYYY-MM-DD
isoformat(d) ==
    Digits(d.year, 4) \o <<45>> \o Digits(d.month, 2) \o <<45>> \o Digits(d.day, 2)

\* pd.to_datetime on an ISO string
to_datetime(s) ==
    Date(ParseInt(SubSeq(s, 1, 4)), ParseInt(SubSeq(s, 6, 7)), ParseInt(SubSeq(s, 9, 10)))

\* datetime.date comparison
DateLeq(a, b) ==
    \/ a.year < b.year
    \/ a.year = b.year /\ a.month < b.month
    \/ a.year = b.year /\ a.month = b.month /\ a.day <= b.day

\* Mutant: the month not zero padded, "2025-9"
to_period_M_Unpadded(d) == Digits(d.year, 4) \o <<45>> \o Digits(d.month, 1)

\* .dt.to_period("M").astype(str): "YYYY-MM"
to_period_M(d) == Digits(d.year, 4) \o <<45>> \o Digits(d.month, 2)

today == Date(2025, 10, 7)

-----------------------------------------------------------------------------
(* Worksheet cells and rows *)

\* A cell of a numeric column: a number, or text a user typed in the sheet.
Num(n) == [num |-> TRUE, val |-> n]
TextCell == [num |-> FALSE, val |-> 0]

\* pd.to_numeric(errors="coerce").fillna(0.0)
to_numeric(c) == IF c.num THEN c.val ELSE 0

TxRow(d, cat, desc, amt, method, notes, payer) ==
    [Date |-> d, Category |-> cat, Description |-> desc, Amount |-> amt,
     PaymentMethod |-> method, Notes |-> notes, Payer |-> payer]

BudgetRow(cat, amt) == [Category |-> cat, MonthlyBudget |-> amt]

GoalRow(name, target, current) ==
    [GoalName |-> name, TargetAmount |-> target, CurrentSaved |-> current]


-----------------------------------------------------------------------------
(* The store: gspread worksheets *)

\* ws.append_row(values): one row after the last row of the sheet
append_row(rows, row) == Append(rows, row)

\* ws.update("<col><idx>", value): sheet row idx is data row idx - 1 (row 1 is
\* the header); a cell below the last row extends the sheet with empty cells.
update_cell(rows, idx, col, value, emptyRow) ==
    LET n == IF idx - 1 > Len(rows) THEN idx - 1 ELSE Len(rows)
        padded == [i \in 1..n |-> IF i <= Len(rows) THEN rows[i] ELSE emptyRow]
    IN  [padded EXCEPT ![idx - 1] = [@ EXCEPT ![col] = value]]

\* pd.DataFrame(sheet.get_all_records()): no records, no columns
Columns(df) == IF df = << >> THEN {} ELSE DOMAIN df[1]

-----------------------------------------------------------------------------
(* The cache: @st.cache_data(ttl=60) on load_sheet_dataframe *)

NoEntry == [hit |-> FALSE, df |-> << >>]

EmptyCache == [ss \in SpreadsheetOptions |-> [sh \in SheetNames |-> NoEntry]]

\* load_sheet_dataframe(sheet_name, spreadsheet_name): the cached dataframe when
\* there is one, else the sheet's records, which are then cached.
load_sheet_dataframe(c, s, sheet_name, ss) ==
    IF c[ss][sheet_name].hit
    THEN [df |-> c[ss][sheet_name].df, cache |-> c]
    ELSE [df |-> s[ss][sheet_name],
          cache |-> [c EXCEPT ![ss][sheet_name] = [hit |-> TRUE, df |-> s[ss][sheet_name]]]]

\* load_sheet_dataframe.clear()
clear(c) == EmptyCache

-----------------------------------------------------------------------------
(* Writers *)

\* append_transaction(row_values): the spreadsheet is the default SHEET_NAME.
\* ok: whether the remote call returns; it raises without effect otherwise.
append_transaction(c, s, row_values, ok) ==
    LET l == load_sheet_dataframe(c, s, TRANSACTIONS_SHEET, SHEET_NAME)
    IN  [cache |-> l.cache,
         store |-> IF ok
                   THEN [s EXCEPT ![SHEET_NAME][TRANSACTIONS_SHEET] = append_row(@, row_values)]
                   ELSE s,
         raised |-> ~ok, issued |-> TRUE]

\* df.index[df[key].astype(str) == name][0] + 2
FirstIndex(df, key, name) ==
    (CHOOSE i \in 1..Len(df) :
        /\ df[i][key] = name
        /\ \A j \in 1..(i - 1) : df[j][key] # name) - 1

SheetRowOf(df, key, name) == FirstIndex(df, key, name) + 2

\* update_budget_row(category, amount)
update_budget_row(c, s, category, amount, ok) ==
    LET l == load_sheet_dataframe(c, s, BUDGETS_SHEET, SHEET_NAME)
        df == l.df
    IN  IF "Category" \notin Columns(df)
        THEN \* df["Category"] raises KeyError
             [cache |-> l.cache, store |-> s, raised |-> TRUE, issued |-> FALSE]
        ELSE [cache |-> l.cache,
              store |->
                IF ~ok THEN s
                ELSE IF \E i \in 1..Len(df) : df[i].Category = category
                THEN [s EXCEPT ![SHEET_NAME][BUDGETS_SHEET] =
                        update_cell(@, SheetRowOf(df, "Category", category),
                                    "MonthlyBudget", Num(amount),
                                    BudgetRow(EmptyStr, TextCell))]
                ELSE [s EXCEPT ![SHEET_NAME][BUDGETS_SHEET] =
                        append_row(@, BudgetRow(category, Num(amount)))],
              raised |-> ~ok, issued |-> TRUE]

\* The two cell writes of an existing goal: outcome "fail1" raises in the first
\* ws.update, "fail2" in the second, after the first took effect.
GoalCellWrites(rows, idx, target, current, outcome) ==
    LET empty == GoalRow(EmptyStr, TextCell, TextCell)
        afterB == update_cell(rows, idx, "TargetAmount", Num(target), empty)
    IN  IF outcome = "fail1" THEN rows
        ELSE IF outcome = "fail2" THEN afterB
        ELSE update_cell(afterB, idx, "CurrentSaved", Num(current), empty)

\* update_goal_row(goal_name, target, current)
update_goal_row(c, s, goal_name, target, current, outcome) ==
    LET l == load_sheet_dataframe(c, s, GOALS_SHEET, SHEET_NAME)
        df == l.df
    IN  IF "GoalName" \notin Columns(df)
        THEN \* df["Goal Name"] raises KeyError
             [cache |-> l.cache, store |-> s, raised |-> TRUE, issued |-> FALSE]
        ELSE [cache |-> l.cache,
              store |->
                IF \E i \in 1..Len(df) : df[i].GoalName = goal_name
                THEN [s EXCEPT ![SHEET_NAME][GOALS_SHEET] =
                        GoalCellWrites(@, SheetRowOf(df, "GoalName", goal_name),
                                       target, current, outcome)]
                ELSE IF outcome = "ok"
                THEN [s EXCEPT ![SHEET_NAME][GOALS_SHEET] =
                        append_row(@, GoalRow(goal_name, Num(target), Num(current)))]
                ELSE s,
              raised |-> outcome # "ok", issued |-> TRUE]

-----------------------------------------------------------------------------
(* Normalize dataframes *)

NormalizeTransactions(df) ==
    [i \in 1..Len(df) |->
        [df[i] EXCEPT !.Date = to_datetime(@), !.Amount = to_numeric(@)]]

NormalizeBudgets(df) ==
    [i \in 1..Len(df) |-> [df[i] EXCEPT !.MonthlyBudget = to_numeric(@)]]

NormalizeGoals(df) ==
    [i \in 1..Len(df) |->
        [df[i] EXCEPT !.TargetAmount = to_numeric(@), !.CurrentSaved = to_numeric(@)]]

\* The top of the script: the three loads of the selected spreadsheet.
LoadData(c, s, ss) ==
    LET l1 == load_sheet_dataframe(c, s, TRANSACTIONS_SHEET, ss)
        l2 == load_sheet_dataframe(l1.cache, s, BUDGETS_SHEET, ss)
        l3 == load_sheet_dataframe(l2.cache, s, GOALS_SHEET, ss)
    IN  [cache |-> l3.cache,
         transactions_df |-> NormalizeTransactions(l1.df),
         budgets_df |-> NormalizeBudgets(l2.df),
         goals_df |-> NormalizeGoals(l3.df)]

-----------------------------------------------------------------------------
(* Dashboard: date filter, months, per-category sums, budget comparison *)

\* transactions_df.loc[mask]: start_date <= Date <= end_date
df_filtered(tx, s, e) ==
    SelectSeq(tx, LAMBDA r : DateLeq(s, r.Date) /\ DateLeq(r.Date, e))

\* Series.unique(): first occurrences, in order
RECURSIVE unique(_)
unique(q) ==
    IF q = << >> THEN << >>
    ELSE LET rest == unique(SubSeq(q, 1, Len(q) - 1))
         IN  IF \E i \in 1..Len(rest) : rest[i] = q[Len(q)]
             THEN rest ELSE Append(rest, q[Len(q)])

\* The month key of one row
MonthKey(r) == to_period_M(r.Date)

\* df_filtered["Date"].dt.to_period("M").astype(str).sort_values().unique()
months(dff) ==
    unique(SortSeq([i \in 1..Len(dff) |-> MonthKey(dff[i])], StrLess))

\* st.selectbox("Select month", months, index=len(months)-1): the default
default_month(ms) == ms[Len(ms)]

\* df_filtered[... == selected_month]
df_month(dff, selected_month) ==
    SelectSeq(dff, LAMBDA r : MonthKey(r) = selected_month)

RECURSIVE SumAmount(_)
SumAmount(q) == IF q = << >> THEN 0 ELSE q[1].Amount + SumAmount(Tail(q))

\* df_month.groupby("Category")["Amount"].sum().reset_index()
\*     .sort_values("Amount", ascending=False)
cat_summary(dfm) ==
    LET keys == unique(SortSeq([i \in 1..Len(dfm) |-> dfm[i].Category], StrLess))
        sums == [k \in 1..Len(keys) |->
                    [Category |-> keys[k],
                     Amount |-> SumAmount(SelectSeq(dfm, LAMBDA r : r.Category = keys[k]))]]
    IN  SortSeq(sums, LAMBDA a, b : a.Amount > b.Amount)

\* A ratio n/d, d > 0, kept exact
Ratio(n, d) == IF d < 0 THEN [n |-> -n, d |-> -d] ELSE [n |-> n, d |-> d]

\* min(100, x)
Min100(x) == IF x.n > 100 * x.d THEN [n |-> 100, d |-> 1] ELSE x

\* 0 if r["Budget"] == 0 else min(100, r["Spent"] / r["Budget"] * 100)
UsedPct(Spent, Budget) ==
    IF Budget = 0 THEN [n |-> 0, d |-> 1] ELSE Min100(Ratio(Spent * 100, Budget))

\* Mutant: how="inner", a budget row that joins with nothing is dropped
JoinRows_Inner(cs, b) ==
    LET m == SelectSeq(cs, LAMBDA r : r.Category = b.Category)
    IN  [i \in 1..Len(m) |->
            [Category |-> b.Category, Spent |-> m[i].Amount, Budget |-> b.MonthlyBudget]]

\* The rows of cat_summary a budget row joins with; none joins as NaN, filled 0.
JoinRows(cs, b) ==
    LET m == SelectSeq(cs, LAMBDA r : r.Category = b.Category)
    IN  IF m = << >>
        THEN <<[Category |-> b.Category, Spent |-> 0, Budget |-> b.MonthlyBudget]>>
        ELSE [i \in 1..Len(m) |->
                [Category |-> b.Category, Spent |-> m[i].Amount, Budget |-> b.MonthlyBudget]]

RECURSIVE RightMerge(_, _)
RightMerge(cs, bud) ==
    IF bud = << >> THEN << >>
    ELSE JoinRows(cs, Head(bud)) \o RightMerge(cs, Tail(bud))

\* pd.merge(cat_summary, budgets_df, on="Category", how="right").fillna(0)
\* with the UsedPct column
merged(cs, bud) ==
    LET j == RightMerge(cs, bud)
    IN  [i \in 1..Len(j) |->
            [Category |-> j[i].Category, Spent |-> j[i].Spent, Budget |-> j[i].Budget,
             UsedPct |-> UsedPct(j[i].Spent, j[i].Budget)]]

\* int(x): truncation toward zero
int(x) == IF x.n >= 0 THEN x.n \div x.d ELSE -((-x.n) \div x.d)

\* Mutant: the guard is target != 0
goal_pct_NonZeroGuard(target, current) ==
    int(Min100(IF target # 0 THEN Ratio(current * 100, target) ELSE [n |-> 0, d |-> 1]))

\* int(min(100, (current/target*100) if target > 0 else 0))
goal_pct(target, current) ==
    int(Min100(IF target > 0 THEN Ratio(current * 100, target) ELSE [n |-> 0, d |-> 1]))

-----------------------------------------------------------------------------
(* Inputs *)

Oct1 == Date(2025, 10, 1)
Oct2 == Date(2025, 10, 2)
Sep30 == Date(2025, 9, 30)
Sep1 == Date(2025, 9, 1)

\* (date_in, category_in, amount_in) of the Add Expense form
ExpenseInputs == { <<Oct1, Food, 500>>, <<Sep30, Food, 20>> }

\* (new_cat, new_budget_amt) of the Budgets form
BudgetInputs ==
    { <<EmptyStr, 500>>, <<Blank, 500>>, <<Food, 500>>, <<Food, 0>>, <<PaddedSnacks, 500>> }

\* (goal_name, target_amt, current_amt) of the Goals form
GoalInputs == { <<Blank, 300, 100>>, <<Trip, 300, 100>>, <<Trip, 0, 400>> }

\* (start_date, end_date) of the sidebar; the first is the default
DefaultRange == <<Date(today.year, today.month, 1), today>>
DateRanges == { DefaultRange, <<Sep1, today>>, <<Date(2024, 12, 1), today>> }

\* What the Add Expense form writes for the fields the model keeps fixed
FormRow(date_in, category_in, amount_in) ==
    TxRow(isoformat(date_in), category_in, Lunch, Num(amount_in), Visa, EmptyStr, You)

\* Sheets as the forms find them: empty below the header, or filled before.
FreshSheets ==
    [sh \in SheetNames |-> << >>]

FilledSheets ==
    (TRANSACTIONS_SHEET :> <<FormRow(Sep30, Food, 20)>>) @@
    (BUDGETS_SHEET :> <<BudgetRow(Food, Num(500))>>) @@
    (GOALS_SHEET :> <<GoalRow(Trip, Num(300), Num(100))>>)

AnotherSheets ==
    (TRANSACTIONS_SHEET :> <<FormRow(Oct1, Snacks, 20)>>) @@
    (BUDGETS_SHEET :> <<BudgetRow(Snacks, Num(500))>>) @@
    (GOALS_SHEET :> << >>)

InitialStores ==
    { (SHEET_NAME :> m) @@ (ANOTHER_SPREADSHEET :> AnotherSheets) :
        m \in {FreshSheets, FilledSheets} }

\* options of the Category selectbox of the Add Expense form
CategoryOptions(bud) == {bud[i].Category : i \in 1..Len(bud)} \cup {Food}

-----------------------------------------------------------------------------
(* Script runs *)

\* History: the interaction of a step and what its writer did. issued: a write
\* call was made; raised: the writer raised; cleared: clear() was called.
Interaction(kind, name, amount, target, current, row, w) ==
    [kind |-> kind, name |-> name, amount |-> amount, target |-> target,
     current |-> current, row |-> row, raised |-> w.raised, issued |-> w.issued,
     cleared |-> w.issued /\ ~w.raised]

NoWriter == [raised |-> FALSE, issued |-> FALSE]

\* After a writer returned: load_sheet_dataframe.clear() and
\* st.experimental_rerun(), which runs the script again from the top. A writer
\* that raised ends the run there.
ClearAndRerun(top, w) ==
    IF w.raised
    THEN [cache |-> w.cache, store |-> w.store, view |-> top]
    ELSE LET again == LoadData(clear(w.cache), w.store, spreadsheet_name)
         IN  [cache |-> again.cache, store |-> w.store, view |-> again]

\* A form submit that calls no writer: the run renders what it loaded.
NoWrite(top) ==
    [cache |-> top.cache, store |-> store, view |-> top]

Commit(r) ==
    /\ store' = r.store
    /\ cache' = r.cache
    /\ transactions_df' = r.view.transactions_df
    /\ budgets_df' = r.view.budgets_df
    /\ goals_df' = r.view.goals_df

\* Mutant: the name is compared without strip()
IsEmptyName_NoStrip(text) == text = EmptyStr

\* if new_cat.strip() == "" / if goal_name.strip() == ""
IsEmptyName(text) == strip(text) = EmptyStr

Start(stores) ==
    /\ store \in stores
    /\ spreadsheet_name = SHEET_NAME
    /\ start_date = Date(today.year, today.month, 1)
    /\ end_date = today
    /\ LET top == LoadData(EmptyCache, store, SHEET_NAME)
       IN  /\ cache = top.cache
           /\ transactions_df = top.transactions_df
           /\ budgets_df = top.budgets_df
           /\ goals_df = top.goals_df
    /\ last = [kind |-> "start", name |-> EmptyStr, amount |-> 0, target |-> 0,
               current |-> 0, row |-> << >>, raised |-> FALSE, issued |-> FALSE,
               cleared |-> FALSE]

Init == Start(InitialStores)

\* A sidebar change (spreadsheet, date range) reruns the script.
Sidebar(ss, range) ==
    LET top == LoadData(cache, store, ss)
    IN  /\ spreadsheet_name' = ss
        /\ start_date' = range[1]
        /\ end_date' = range[2]
        /\ Commit(NoWrite(top))
        /\ last' = Interaction("sidebar", EmptyStr, 0, 0, 0, << >>, NoWriter)

\* The Add Expense form is submitted.
add_expense_form(date_in, category_in, amount_in, ok) ==
    LET top == LoadData(cache, store, spreadsheet_name)
        row == FormRow(date_in, category_in, amount_in)
        w == append_transaction(top.cache, store, row, ok)
    IN  /\ Len(store[SHEET_NAME][TRANSACTIONS_SHEET]) < MaxTx
        /\ category_in \in CategoryOptions(budgets_df)
        /\ Commit(ClearAndRerun(top, w))
        /\ last' = Interaction("expense", EmptyStr, amount_in, 0, 0,
                               [row EXCEPT !.Date = date_in, !.Amount = amount_in],
                               w)
        /\ UNCHANGED <<spreadsheet_name, start_date, end_date>>

\* The Budgets form is submitted.
budget_form(new_cat, new_budget_amt, ok) ==
    LET top == LoadData(cache, store, spreadsheet_name)
    IN  /\ IF IsEmptyName(new_cat)
           THEN /\ Commit(NoWrite(top))
                /\ last' = Interaction("budget", new_cat, new_budget_amt, 0, 0, << >>,
                                       NoWriter)
           ELSE LET w == update_budget_row(top.cache, store, strip(new_cat),
                                           new_budget_amt, ok)
                IN  /\ Commit(ClearAndRerun(top, w))
                    /\ last' = Interaction("budget", new_cat, new_budget_amt, 0, 0, << >>,
                                           w)
        /\ UNCHANGED <<spreadsheet_name, start_date, end_date>>

\* The Goals form is submitted.
goal_form(goal_name, target_amt, current_amt, outcome) ==
    LET top == LoadData(cache, store, spreadsheet_name)
    IN  /\ IF IsEmptyName(goal_name)
           THEN /\ Commit(NoWrite(top))
                /\ last' = Interaction("goal", goal_name, 0, target_amt, current_amt, << >>,
                                       NoWriter)
           ELSE LET w == update_goal_row(top.cache, store, strip(goal_name),
                                         target_amt, current_amt, outcome)
                IN  /\ Commit(ClearAndRerun(top, w))
                    /\ last' = Interaction("goal", goal_name, 0, target_amt, current_amt,
                                           << >>, w)
        /\ UNCHANGED <<spreadsheet_name, start_date, end_date>>

\* ttl=60: a minute passes without a load and the entries have expired. (The
\* entries of one run expire together; which of them are left does not change
\* what a load returns unless the entry differs from the sheet.)
Expire ==
    /\ cache # EmptyCache
    /\ cache' = EmptyCache
    /\ last' = Interaction("expire", EmptyStr, 0, 0, 0, << >>, NoWriter)
    /\ UNCHANGED <<store, spreadsheet_name, start_date, end_date,
                   transactions_df, budgets_df, goals_df>>

\* The forms and the spreadsheet selector; the date range, which only the
\* dashboard reads, is varied in DashSpec.
Next ==
    \/ \E ss \in SpreadsheetOptions : Sidebar(ss, <<start_date, end_date>>)
    \/ \E e \in ExpenseInputs, ok \in BOOLEAN : add_expense_form(e[1], e[2], e[3], ok)
    \/ \E b \in BudgetInputs, ok \in BOOLEAN : budget_form(b[1], b[2], ok)
    \/ \E g \in GoalInputs, outcome \in {"ok", "fail1", "fail2"} :
            goal_form(g[1], g[2], g[3], outcome)
    \/ Expire

Spec == Init /\ [][Next]_vars

-----------------------------------------------------------------------------
(* The dashboard and the goals list over sheets of any content *)

\* Rows the Transactions worksheet holds in DashSpec.
MaxDashTx == 2

Dec15 == Date(2024, 12, 15)

\* Rows of the Transactions sheet: written by the form, or typed in the sheet
\* (a refund).
DashTxRows ==
    { FormRow(Oct1, Food, 500), FormRow(Oct2, Food, 20), FormRow(Sep30, Food, 20),
      FormRow(Oct2, Snacks, 20), FormRow(Dec15, Snacks, 20), FormRow(Oct1, Food, -20) }

RECURSIVE SeqsUpTo(_, _)
SeqsUpTo(S, n) ==
    IF n = 0 THEN { << >> }
    ELSE LET shorter == SeqsUpTo(S, n - 1)
         IN  shorter \cup { Append(q, x) : q \in shorter, x \in S }

DashBudgets ==
    { << >>,
      <<BudgetRow(Food, Num(500))>>,
      <<BudgetRow(Snacks, Num(0)), BudgetRow(Food, Num(500))>>,
      <<BudgetRow(Food, TextCell), BudgetRow(Trip, Num(-500))>> }

DashGoals ==
    { << >>,
      <<GoalRow(Trip, Num(300), Num(100)), GoalRow(Food, Num(0), Num(400))>>,
      <<GoalRow(Trip, Num(300), Num(400)), GoalRow(Food, Num(-100), Num(50)),
        GoalRow(Snacks, Num(300), Num(-50))>> }

DashStores ==
    { (SHEET_NAME :>
         ((TRANSACTIONS_SHEET :> t) @@ (BUDGETS_SHEET :> b) @@ (GOALS_SHEET :> g)))
      @@ (ANOTHER_SPREADSHEET :> AnotherSheets) :
        t \in SeqsUpTo(DashTxRows, MaxDashTx), b \in DashBudgets, g \in DashGoals }

DashInit == Start(DashStores)

DashNext ==
    \/ \E ss \in SpreadsheetOptions, range \in DateRanges : Sidebar(ss, range)
    \/ Expire

DashSpec == DashInit /\ [][DashNext]_vars

-----------------------------------------------------------------------------
(* Properties *)

\* Only blanks, or nothing at all
OnlyWhitespace(text) == \A i \in 1..Len(text) : text[i] = 32

\* The writer of the last interaction was called and no remote call of it failed.
WriterRan == ~OnlyWhitespace(last.name) /\ ~(last.issued /\ last.raised)

MainBudgets == store[SHEET_NAME][BUDGETS_SHEET]
MainGoals == store[SHEET_NAME][GOALS_SHEET]

\* What the dashboard shows for the dataframes and the date range of the state
Filtered == df_filtered(transactions_df, start_date, end_date)
Months == months(Filtered)
MonthRows(m) == df_month(Filtered, m)
Comparison(m) == merged(cat_summary(MonthRows(m)), budgets_df)
SeqRange(q) == { q[i] : i \in 1..Len(q) }
MonthSet == SeqRange(Months)
YearMonth(r) == r.Date.year * 12 + r.Date.month

\* C1: after a Budgets form submit of a non-empty category c and an amount a
\* whose remote calls did not fail, the Budgets table the rerun loads for the
\* selected spreadsheet has exactly one row of Category c, and its Monthly
\* Budget is a (also after any number of identical submits).
C1_UpsertBudgetOneRow ==
    (last.kind = "budget" /\ WriterRan) =>
        LET c == strip(last.name)
            hits == { i \in 1..Len(budgets_df) : budgets_df[i].Category = c }
        IN  /\ Cardinality(hits) = 1
            /\ \A i \in hits : budgets_df[i].MonthlyBudget = last.amount

\* C2: after an Add Expense submit whose append returned, the Transactions
\* table the rerun loads for the selected spreadsheet has a row with the seven
\* submitted values.
C2_AppendRoundTrip ==
    (last.kind = "expense" /\ ~last.raised) =>
        \E i \in 1..Len(transactions_df) : transactions_df[i] = last.row

\* C3: every write that was issued is followed by clear(), whether or not the
\* call returned, so that no entry left in the cache differs from its sheet.
C3_InvalidateAfterWrite ==
    /\ last.issued => last.cleared
    /\ \A ss \in SpreadsheetOptions, sh \in SheetNames :
            cache[ss][sh].hit => cache[ss][sh].df = store[ss][sh]

\* C4: every row of the budget comparison has 0 <= UsedPct <= 100, and a
\* budget of 500 with 520 spent gives UsedPct = 100.
C4_UsedPctInRange ==
    \A m \in MonthSet :
        \A r \in SeqRange(Comparison(m)) :
            /\ 0 <= r.UsedPct.n
            /\ r.UsedPct.n <= 100 * r.UsedPct.d
            /\ (r.Budget = 500 /\ r.Spent = 520) => r.UsedPct = [n |-> 100, d |-> 1]

\* C5: the budget comparison has a row for a category exactly when Budgets has
\* one; a budgeted category without a transaction in the month has Spent = 0;
\* a category with transactions in the month and no budget is in the
\* per-category sums and not in the comparison.
C5_BudgetAnchoredJoin ==
    \A m \in MonthSet :
        LET dfm == MonthRows(m)
            sums == SeqRange(cat_summary(dfm))
            cmp == SeqRange(Comparison(m))
            budgeted == { b.Category : b \in SeqRange(budgets_df) }
            spentIn == { r.Category : r \in SeqRange(dfm) }
        IN  /\ { r.Category : r \in cmp } = budgeted
            /\ \A r \in cmp : r.Category \notin spentIn => r.Spent = 0
            /\ \A c \in spentIn \ budgeted :
                    /\ \E x \in sums : x.Category = c
                    /\ \A r \in cmp : r.Category # c

C5_Witness ==
    \E m \in MonthSet :
        /\ \E r \in SeqRange(Comparison(m)) :
                /\ r.Spent = 0
                /\ \A t \in SeqRange(MonthRows(m)) : t.Category # r.Category
        /\ \E t \in SeqRange(MonthRows(m)) :
                \A b \in SeqRange(budgets_df) : b.Category # t.Category

\* C7: the month keys are distinct and in chronological order, every filtered
\* transaction is in the subset of exactly one key, and the default key is the
\* most recent month.
C7_MonthPartition ==
    /\ \A i, j \in 1..Len(Months) :
            i < j =>
                /\ Months[i] # Months[j]
                /\ \A a \in SeqRange(MonthRows(Months[i])), b \in SeqRange(MonthRows(Months[j])) :
                        YearMonth(a) < YearMonth(b)
    /\ \A i \in 1..Len(Months) : MonthRows(Months[i]) # << >>
    /\ \A k \in 1..Len(Filtered) :
            Cardinality({ i \in 1..Len(Months) :
                            \E n \in 1..Len(MonthRows(Months[i])) :
                                MonthRows(Months[i])[n] = Filtered[k] }) = 1
    /\ Months # << >> =>
            \A a \in SeqRange(Filtered), b \in SeqRange(MonthRows(default_month(Months))) :
                YearMonth(a) <= YearMonth(b)

C7_Witness ==
    /\ Len(Months) >= 2
    /\ \E a, b \in SeqRange(Filtered) : a.Date.month = 9 /\ b.Date.month = 10

C6_EmptyNameNoWrite ==
    [][ (last'.kind \in {"budget", "goal"} /\ OnlyWhitespace(last'.name)) =>
            /\ store' = store
            /\ ~last'.issued
            /\ \A ss \in SpreadsheetOptions, sh \in SheetNames :
                    IF cache[ss][sh].hit
                    THEN cache'[ss][sh] = cache[ss][sh]
                    ELSE cache'[ss][sh].hit =>
                            (ss = spreadsheet_name /\ cache'[ss][sh].df = store[ss][sh])
      ]_vars

C6_Witness ==
    /\ last.kind = "budget"
    /\ last.name = Blank
    /\ MainBudgets # << >>
    /\ cache[SHEET_NAME][BUDGETS_SHEET].hit

\* C9: update_goal_row on an existing goal is atomic: its row ends with both
\* previous values or with both new values, also when the operation fails.
C9_GoalUpsertAtomic ==
    [][ (last'.kind = "goal" /\ ~OnlyWhitespace(last'.name)) =>
            \A i \in 1..Len(MainGoals) :
                MainGoals[i].GoalName = strip(last'.name) =>
                    \/ MainGoals'[i] = MainGoals[i]
                    \/ /\ MainGoals'[i].TargetAmount = Num(last'.target)
                       /\ MainGoals'[i].CurrentSaved = Num(last'.current)
      ]_vars

\* The rows of `after` are those of `before` but for the columns `cols` of the
\* first row whose `key` is `name`; with no such row, `before` and then `full`.
UpsertOnly(before, after, key, name, cols, full) ==
    IF \E i \in 1..Len(before) : before[i][key] = name
    THEN /\ Len(after) = Len(before)
         /\ \A i \in 1..Len(before) :
                IF before[i][key] = name /\ \A j \in 1..(i - 1) : before[j][key] # name
                THEN \A col \in (DOMAIN before[i]) \ cols : after[i][col] = before[i][col]
                ELSE after[i] = before[i]
    ELSE after = Append(before, full)

\* C10: update_budget_row and update_goal_row change the value columns of the
\* matching row and nothing else, or append one full row when no row matches;
\* no other table changes.
C10_UpsertFrame ==
    [][ /\ (last'.kind = "budget" /\ ~OnlyWhitespace(last'.name)
                /\ ~(last'.issued /\ last'.raised)) =>
            /\ UpsertOnly(MainBudgets, MainBudgets', "Category", strip(last'.name),
                          {"MonthlyBudget"},
                          BudgetRow(strip(last'.name), Num(last'.amount)))
            /\ \A ss \in SpreadsheetOptions, sh \in SheetNames :
                    <<ss, sh>> # <<SHEET_NAME, BUDGETS_SHEET>> => store'[ss][sh] = store[ss][sh]
        /\ (last'.kind = "goal" /\ ~OnlyWhitespace(last'.name)
                /\ ~(last'.issued /\ last'.raised)) =>
            /\ UpsertOnly(MainGoals, MainGoals', "GoalName", strip(last'.name),
                          {"TargetAmount", "CurrentSaved"},
                          GoalRow(strip(last'.name), Num(last'.target), Num(last'.current)))
            /\ \A ss \in SpreadsheetOptions, sh \in SheetNames :
                    <<ss, sh>> # <<SHEET_NAME, GOALS_SHEET>> => store'[ss][sh] = store[ss][sh]
      ]_vars

=============================================================================
